---- MODULE Spec2Model ----
(***************************************************************************)
(* A model of durable-objects-sql-tag: the sql template tag with its       *)
(* join/list helpers and the flattening of a fragment tree into a prepared *)
(* statement (sql-tag.ts), and the schema migration runner and the query   *)
(* methods of wrapDatabase (db-wrapper.ts).                                *)
(*                                                                         *)
(* Text is a sequence of one-character strings, so that concatenation and  *)
(* the position of a placeholder are what the code makes them.             *)
(***************************************************************************)
EXTENDS Integers, Sequences, FiniteSets, TLC

VARIABLES
    frag,           \* the fragment the caller built last (a tree of fragments)
    stmt,           \* what frag.build() returned, NoStatement before the call
    versions,       \* options.migrations: the configured migration list
    hasObserver,    \* whether options.beforeMigration is configured
    tableExists,    \* whether the metadata table exists in the storage
    metadata,       \* the rows of the metadata table
    applied,        \* the hooks whose statements the storage holds
    pc,             \* where the migration run stands, "idle" between runs
    initialVersion, \* migrateDatabase's initialVersion
    version,        \* migrateDatabase's loop variable
    log,            \* the calls of the current (or last) run, in order
    outcome,        \* how the last wrapDatabase call ended
    previous,       \* how the call before it ended, and at which index
    status,         \* what the last getMigrationStatus call returned or threw
    other,          \* a run that a hook of the run started, and its calls
    callbacks,      \* whether the wrapper has beforeQuery and afterQuery
    method,         \* the query method called last, "none" before any call
    queryStatement, \* the argument of that call
    queryRows,      \* queryCommon's rows
    calls,          \* the calls that the query call made, in order
    qpc,            \* where the query call stands, "idle" between calls
    answer          \* how the last query call ended

sqlVars == <<frag, stmt>>

storageVars == <<tableExists, metadata, applied>>

configVars == <<versions, hasObserver>>

runVars == <<pc, initialVersion, version, log, outcome, previous>>

sideVars == <<status, other>>

migrateVars == <<configVars, storageVars, runVars, sideVars>>

queryVars ==
    <<callbacks, method, queryStatement, queryRows, calls, qpc, answer>>

vars == <<sqlVars, migrateVars, queryVars>>

\* ------------------------------------------------------------------ bounds

\* The largest number of slots (scalar and nested together) of a whole
\* fragment tree the sql machine builds.
MaxSlots == 3

\* The largest number of configured migrations.
MaxSteps == 3

\* ------------------------------------------------------- values of sql-tag

\* The scalar inputs the machine draws slot values from: a number, and a
\* string of SQL text with a quote and a placeholder character.
Primitives ==
    { [kind |-> "number", text |-> <<"1">>],
      [kind |-> "string", text |-> <<"'", ";", "?">>] }

\* templateValues[j] past the end of the array
Undefined == [kind |-> "undefined", text |-> <<>>]

\* The literal segments the machine draws template strings from.
Literals == { <<>>, <<"a", "?">> }

TypeOf(value) ==
    IF "kind" \in DOMAIN value
    THEN CASE value.kind = "null"  -> "object"
           [] value.kind = "bytes" -> "object"
           [] OTHER                -> value.kind
    ELSE "object"

Truthy(value) ==
    IF "kind" \in DOMAIN value
    THEN CASE value.kind = "null"      -> FALSE
           [] value.kind = "undefined" -> FALSE
           [] value.kind = "boolean"   -> value.text = <<"t">>
           [] value.kind = "string"    -> value.text # <<>>
           [] value.kind = "number"    -> value.text # <<"0">>
           [] OTHER                    -> TRUE
    ELSE TRUE

\* expand's test of a slot value: an object with both fragment fields
ValueIsFragment(value) ==
    /\ Truthy(value)
    /\ TypeOf(value) = "object"
    /\ "templateStrings" \in DOMAIN value
    /\ "templateValues" \in DOMAIN value

\* array[j] of JavaScript, j counted from 1 here
ValueAt(templateValues, j) ==
    IF j \in 1..Len(templateValues) THEN templateValues[j] ELSE Undefined

\* The result of build(): values is undefined or a list.
Statement(query, defined, list) ==
    [query |-> query, values |-> [defined |-> defined, list |-> list]]

\* ...(statement.values || []) of the wrapper: the parameters handed over
ParamsOf(statement) ==
    IF statement.values.defined THEN statement.values.list ELSE <<>>

\* ------------------------------------------------------------ expandTemplate

Placeholder == <<"?">>

\* A bug that EmitScalar could have: the value put in front of the list.
EmitScalarUnshift(acc, value) ==
    [query |-> acc.query \o Placeholder, values |-> <<value>> \o acc.values]

\* A bug that EmitScalar could have: a string written into the text, quoted.
EmitScalarInline(acc, value) ==
    IF value.kind = "string"
    THEN [acc EXCEPT !.query = acc.query \o <<"'">> \o value.text \o <<"'">>]
    ELSE [query |-> acc.query \o Placeholder,
          values |-> Append(acc.values, value)]

\* The else branch of expand: one placeholder, the value pushed as it is.
EmitScalar(acc, value) ==
    [query |-> acc.query \o Placeholder, values |-> Append(acc.values, value)]

EmitLiteral(acc, literal) ==
    [acc EXCEPT !.query = acc.query \o literal]

RECURSIVE ExpandFrom(_, _, _, _)

\* A bug that Splice could have: the nested fragment expanded into a buffer
\* of its own, the text written so far lost.
SpliceFresh(acc, value) ==
    ExpandFrom([query |-> <<>>, values |-> acc.values],
               value.templateStrings, value.templateValues, 1)

\* expand(value.templateStrings, value.templateValues): the nested fragment
\* written into the same two buffers
Splice(acc, value) ==
    ExpandFrom(acc, value.templateStrings, value.templateValues, 1)

\* expand's loop from index i (counted from 1) on, over the buffers acc that
\* the closure shares with its recursive calls.
ExpandFrom(acc, templateStrings, templateValues, i) ==
    IF i > Len(templateStrings)
    THEN acc
    ELSE LET value == ValueAt(templateValues, i - 1)
             slot ==
                 IF i > 1
                 THEN IF ValueIsFragment(value)
                      THEN Splice(acc, value)
                      ELSE EmitScalar(acc, value)
                 ELSE acc
         IN  ExpandFrom(EmitLiteral(slot, templateStrings[i]),
                        templateStrings, templateValues, i + 1)

Expand(acc, templateStrings, templateValues) ==
    ExpandFrom(acc, templateStrings, templateValues, 1)

ExpandTemplate(rootTemplateStrings, rootTemplateValues) ==
    LET out == Expand([query |-> <<>>, values |-> <<>>],
                      rootTemplateStrings, rootTemplateValues)
    IN  Statement(out.query, Len(out.values) > 0, out.values)

\* ----------------------------------------------------------------- fragments

\* A fragment is its two template arrays and, in ctor, which closures its
\* build() and isEmpty() are.
Fragment(ctor, templateStrings, templateValues) ==
    [ctor |-> ctor, templateStrings |-> templateStrings,
     templateValues |-> templateValues]

SqlTag(templateStrings, templateValues) ==
    Fragment("sql", templateStrings, templateValues)

\* A bug that NullText could have: empty syntax for an empty input.
NullTextEmpty == <<>>

NullText == <<"N", "U", "L", "L">>

\* A bug that Separator could have: the comma alone.
SeparatorBare == <<",">>

Separator == <<",", " ">>

\* sql.join
SqlJoin(values) ==
    IF Len(values) = 0
    THEN Fragment("joinEmpty", <<NullText>>, <<>>)
    ELSE Fragment("join",
                  <<<<>>>> \o [i \in 1..(Len(values) - 1) |-> Separator]
                           \o <<<<>>>>,
                  values)

\* sql.list
SqlList(values) ==
    IF Len(values) = 0
    THEN Fragment("listEmpty", <<<<"(">> \o NullText \o <<")">>>>, <<>>)
    ELSE Fragment("list",
                  <<<<"(">>>> \o [i \in 1..(Len(values) - 1) |-> Separator]
                              \o <<<<")">>>>,
                  values)

\* fragment.build()
Build(fragment) ==
    CASE fragment.ctor = "joinEmpty" -> Statement(NullText, FALSE, <<>>)
      [] fragment.ctor = "listEmpty" ->
             Statement(<<"(">> \o NullText \o <<")">>, TRUE, <<>>)
      [] OTHER -> ExpandTemplate(fragment.templateStrings,
                                 fragment.templateValues)

\* A bug that IsTemplateEmpty could have: the text alone looked at.
IsTemplateEmptyText(templateStrings, templateValues) ==
    \A i \in 1..Len(templateStrings) : Len(templateStrings[i]) = 0

IsTemplateEmpty(templateStrings, templateValues) ==
    /\ Len(templateStrings) = 1
    /\ Len(templateStrings[1]) = 0
    /\ Len(templateValues) = 0

\* fragment.isEmpty()
IsEmpty(fragment) ==
    CASE fragment.ctor \in {"joinEmpty", "listEmpty"} -> FALSE
      [] OTHER -> IsTemplateEmpty(fragment.templateStrings,
                                  fragment.templateValues)

\* The slots of a whole tree, nested fragments' slots included.
RECURSIVE TreeSlots(_)
SumSlots(values, j) ==
    IF ValueIsFragment(values[j]) THEN 1 + TreeSlots(values[j]) ELSE 1

RECURSIVE SumTo(_, _)
SumTo(values, n) ==
    IF n = 0 THEN 0 ELSE SumTo(values, n - 1) + SumSlots(values, n)

TreeSlots(fragment) ==
    SumTo(fragment.templateValues, Len(fragment.templateValues))

\* ------------------------------------------------------------------ storage

NumberValue(n) == [type |-> "number", num |-> n]

\* SELECT value FROM metadata WHERE key = "schema_version"
SelectSchemaVersion(rows) == { r \in rows : r.key = "schema_version" }

\* A bug that UpsertSchemaVersion could have: a plain INSERT, which leaves
\* an existing row as it is.
InsertSchemaVersion(rows, targetVersion) ==
    IF SelectSchemaVersion(rows) # {}
    THEN rows
    ELSE rows \cup { [key |-> "schema_version",
                      value |-> NumberValue(targetVersion)] }

\* INSERT INTO metadata (key, value) VALUES ("schema_version", v)
\* ON CONFLICT(key) DO UPDATE SET value = v
UpsertSchemaVersion(rows, targetVersion) ==
    { r \in rows : r.key # "schema_version" }
        \cup { [key |-> "schema_version", value |-> NumberValue(targetVersion)] }

NoError == [class |-> "none", message |-> ""]

InvalidSchemaVersion == [class |-> "Error", message |-> "Invalid schema_version"]

\* A bug that GetSchemaVersion could have: a query that matches no row.
GetSchemaVersionNoRow(rows) == [error |-> NoError, currentVersion |-> 0]

\* A bug that GetSchemaVersion could have: the version before the one
\* persisted read.
GetSchemaVersionBehind(rows) ==
    LET result == SelectSchemaVersion(rows)
        first == CHOOSE r \in result : TRUE
    IN  [error |-> NoError,
         currentVersion |-> IF result = {} THEN 0 ELSE first.value.num - 1]

\* A bug that GetSchemaVersion could have: a value that is no number read as
\* no row.
GetSchemaVersionLenient(rows) ==
    LET result == SelectSchemaVersion(rows)
        first == CHOOSE r \in result : TRUE
    IN  [error |-> NoError,
         currentVersion |-> IF result = {} \/ first.value.type # "number"
                            THEN 0
                            ELSE first.value.num]

\* getSchemaVersion, after its CREATE TABLE IF NOT EXISTS: the version read,
\* 0 without a row, or the error thrown for a value that is no number.
GetSchemaVersion(rows) ==
    LET result == SelectSchemaVersion(rows)
        first == CHOOSE r \in result : TRUE
    IN  IF result # {} /\ first.value.type # "number"
        THEN [error |-> InvalidSchemaVersion, currentVersion |-> 0]
        ELSE [error |-> NoError,
              currentVersion |-> IF result = {} THEN 0 ELSE first.value.num]

\* ------------------------------------------------------------- migrations

Min(a, b) == IF a < b THEN a ELSE b

Max(a, b) == IF a > b THEN a ELSE b

\* A bug that Slice could have: the start index ignored.
SliceFromStart(array, start, end) == SubSeq(array, 1, Min(end, Len(array)))

\* Array.prototype.slice(start, end), indices counted from 0 as in the code
Slice(array, start, end) ==
    LET len == Len(array)
        from == IF start < 0 THEN Max(len + start, 0) ELSE Min(start, len)
        to == IF end < 0 THEN Max(len + end, 0) ELSE Min(end, len)
    IN  SubSeq(array, from + 1, to)

StepName(i) == "migration_" \o ToString(i)

\* A MigrationVersionDefinition: its name and whether beforeMigrate is given.
Definition(i, hasBeforeMigrate) ==
    [name |-> StepName(i), hasBeforeMigrate |-> hasBeforeMigrate]

MigrationLists ==
    UNION { { [i \in 1..n |-> Definition(i, flags[i])] :
                  flags \in [1..n -> BOOLEAN] } :
            n \in 0..MaxSteps }

Names(definitions) == [i \in 1..Len(definitions) |-> definitions[i].name]

\* What a hook can throw: errors of the hook's own making.
UserErrors ==
    { [class |-> "Error", message |-> "hook failed"],
      [class |-> "TypeError", message |-> "no such table"] }

\* What a call of a user hook does: it returns, or throws one of its errors.
HookResults == { NoError } \cup UserErrors

\* One call the run made: the callee, the target version it was made for,
\* the step names passed or printed, and what the call threw.
Event(op, step, names, result) ==
    [op |-> op, step |-> step, names |-> names, result |-> result]

Running == [status |-> "running", error |-> NoError]

Returned == [status |-> "returned", error |-> NoError]

Threw(error) == [status |-> "threw", error |-> error]

\* A bug that AlreadyCurrent could have: no early return.
NeverCurrent(currentVersion, finalTargetVersion) == FALSE

\* if (initialVersion === finalTargetVersion) return
AlreadyCurrent(currentVersion, finalTargetVersion) ==
    currentVersion = finalTargetVersion

\* A bug that TargetVersion could have: the index taken for the version.
TargetVersionIndex(index) == index

\* const targetVersion = version + 1
TargetVersion(index) == index + 1

\* A bug that Propagate could have, and what the error would be were it
\* wrapped: an error of the runner naming the step.
PropagateWrapped(error, definition, targetVersion) ==
    [class |-> "MigrationStepError", message |-> error.message,
     stepName |-> definition.name, targetVersion |-> targetVersion,
     cause |-> error]

\* migrateDatabase has no try/catch around the hooks: what a hook throws is
\* what the caller of wrapDatabase catches.
Propagate(error, definition, targetVersion) == error

\* A bug that PcAfter could have: the error noted and the loop going on.
PcAfterSwallowed(result, next) == next

\* Where the run stands after a hook's call: at the next statement when the
\* hook returned, out of migrateDatabase when it threw.
PcAfter(result, next) == IF result = NoError THEN next ELSE "idle"

\* A bug that HookEffects could have: the statements of a failing step
\* rolled back.
HookEffectsRolledBack(result, targetVersion, hook, partial) ==
    IF result = NoError
    THEN applied \cup { <<targetVersion, hook>> }
    ELSE { effect \in applied : effect[1] # targetVersion }

\* The statements of a hook that the storage holds after the call: all of
\* them when it returned, those before the throw (some or none) otherwise.
HookEffects(result, targetVersion, hook, partial) ==
    IF result = NoError \/ partial
    THEN applied \cup { <<targetVersion, hook>> }
    ELSE applied

\* wrapDatabase(storage, {migrations, beforeMigration}) up to the loop of
\* migrateDatabase: the version read, the early return, the observer.
WrapDatabase ==
    /\ pc = "idle"
    /\ tableExists' = TRUE
    /\ previous' = [status |-> outcome.status, version |-> version]
    /\ LET got == GetSchemaVersion(metadata)
           finalTargetVersion == Len(versions)
           migrationsToApply ==
               Slice(versions, got.currentVersion, finalTargetVersion)
       IN  IF got.error # NoError
           THEN /\ outcome' = Threw(got.error)
                /\ log' = <<>>
                /\ pc' = "idle"
                /\ UNCHANGED <<initialVersion, version>>
           ELSE /\ initialVersion' = got.currentVersion
                /\ version' = got.currentVersion
                /\ IF AlreadyCurrent(got.currentVersion, finalTargetVersion)
                   THEN /\ outcome' = Returned
                        /\ log' = <<>>
                        /\ pc' = "idle"
                   ELSE IF hasObserver
                   THEN \E result \in HookResults :
                            /\ log' = <<Event("beforeMigration", 0,
                                              Names(migrationsToApply),
                                              result)>>
                            /\ pc' = PcAfter(result, "loop")
                            /\ outcome' = IF result = NoError
                                          THEN Running
                                          ELSE Threw(result)
                   ELSE /\ log' = <<>>
                        /\ pc' = "loop"
                        /\ outcome' = Running
    /\ UNCHANGED <<metadata, applied, configVars,
                   sqlVars, queryVars, sideVars>>

\* The loop's test and, inside, the console.log of the step.
LoopTest ==
    /\ pc = "loop"
    /\ IF version < Len(versions)
       THEN /\ log' = Append(log, Event("console.log", TargetVersion(version),
                                        <<versions[version + 1].name>>,
                                        NoError))
            /\ pc' = "beforeMigrate"
            /\ UNCHANGED outcome
       ELSE /\ pc' = "idle"
            /\ outcome' = Returned
            /\ UNCHANGED log
    /\ UNCHANGED <<initialVersion, version, previous, storageVars,
                   configVars,
                   sqlVars, queryVars, sideVars>>

\* if (definition.beforeMigrate) definition.beforeMigrate(db)
BeforeMigrate ==
    /\ pc = "beforeMigrate"
    /\ LET definition == versions[version + 1]
           targetVersion == TargetVersion(version)
       IN  IF definition.hasBeforeMigrate
           THEN \E result \in HookResults, partial \in BOOLEAN :
                    /\ log' = Append(log, Event("beforeMigrate", targetVersion,
                                                <<definition.name>>, result))
                    /\ applied' = HookEffects(result, targetVersion,
                                              "beforeMigrate", partial)
                    /\ pc' = PcAfter(result, "migrate")
                    /\ outcome' =
                           IF result = NoError
                           THEN outcome
                           ELSE Threw(Propagate(result, definition,
                                                targetVersion))
           ELSE /\ pc' = "migrate"
                /\ UNCHANGED <<log, applied, outcome>>
    /\ UNCHANGED <<initialVersion, version, previous, tableExists, metadata,
                   configVars,
                   sqlVars, queryVars, sideVars>>

\* definition.migrate(db)
Migrate ==
    /\ pc = "migrate"
    /\ LET definition == versions[version + 1]
           targetVersion == TargetVersion(version)
       IN  \E result \in HookResults, partial \in BOOLEAN :
               /\ log' = Append(log, Event("migrate", targetVersion,
                                           <<definition.name>>, result))
               /\ applied' = HookEffects(result, targetVersion, "migrate",
                                         partial)
               /\ pc' = PcAfter(result, "persist")
               /\ outcome' =
                      IF result = NoError
                      THEN outcome
                      ELSE Threw(Propagate(result, definition, targetVersion))
    /\ UNCHANGED <<initialVersion, version, previous, tableExists, metadata,
                   configVars,
                   sqlVars, queryVars, sideVars>>

\* db.run(sql`INSERT INTO metadata ... ON CONFLICT(key) DO UPDATE ...`) and
\* the loop's version++
PersistVersion ==
    /\ pc = "persist"
    /\ LET targetVersion == TargetVersion(version)
       IN  /\ metadata' = UpsertSchemaVersion(metadata, targetVersion)
           /\ log' = Append(log, Event("run", targetVersion, <<>>, NoError))
    /\ version' = version + 1
    /\ pc' = "loop"
    /\ UNCHANGED <<initialVersion, outcome, previous, tableExists, applied,
                   configVars,
                   sqlVars, queryVars, sideVars>>

\* createWrapper has returned and no query method was called yet.
QueryIdle ==
    /\ method = "none"
    /\ queryStatement = [query |-> <<>>,
                         values |-> [defined |-> FALSE, list |-> <<>>]]
    /\ queryRows = <<>>
    /\ calls = <<>>
    /\ qpc = "idle"
    /\ answer = [status |-> "none", error |-> NoError]

\* getMigrationStatus not called yet
NoStatus ==
    [status |-> "none", error |-> NoError, currentVersion |-> 0,
     targetVersion |-> 0, migrationsToApply |-> <<>>]

\* The other run on the storage when a hook calls wrapDatabase itself: the
\* run suspended in the hook while the nested run executes (pc is where it
\* stands), the finished nested run afterwards. No hook has called
\* wrapDatabase yet.
NoOther ==
    [pc |-> "idle", started |-> FALSE, initialVersion |-> 0, version |-> 0,
     log |-> <<>>, outcome |-> [status |-> "none", error |-> NoError]]

SideIdle ==
    /\ status = NoStatus
    /\ other = NoOther

\* A fresh storage and no call made yet.
MigrateIdle ==
    /\ tableExists = FALSE
    /\ metadata = {}
    /\ applied = {}
    /\ pc = "idle"
    /\ initialVersion = 0
    /\ version = 0
    /\ log = <<>>
    /\ outcome = [status |-> "none", error |-> NoError]
    /\ previous = [status |-> "none", version |-> 0]
    /\ SideIdle

Init ==
    /\ versions \in MigrationLists
    /\ hasObserver \in BOOLEAN
    /\ MigrateIdle
    /\ frag = SqlTag(<<<<>>>>, <<>>)
    /\ stmt = [none |-> TRUE]
    /\ callbacks = FALSE
    /\ QueryIdle

Next ==
    \/ WrapDatabase
    \/ LoopTest
    \/ BeforeMigrate
    \/ Migrate
    \/ PersistVersion

Spec == Init /\ [][Next]_vars

\* A hook of the run calls wrapDatabase on the storage, with the same
\* migrations: the run is suspended in the hook, before the hook's own
\* statements, and the nested call begins. JavaScript has one thread and
\* migrateDatabase awaits nothing, so this is the one way in which a run
\* starts before another has ended.
Enter ==
    /\ ~other.started
    /\ \/ pc = "migrate"
       \/ pc = "beforeMigrate" /\ versions[version + 1].hasBeforeMigrate
    /\ other' = [pc |-> pc, started |-> TRUE,
                 initialVersion |-> initialVersion, version |-> version,
                 log |-> log, outcome |-> outcome]
    /\ pc' = "idle"
    /\ initialVersion' = 0
    /\ version' = 0
    /\ log' = <<>>
    /\ outcome' = [status |-> "none", error |-> NoError]
    /\ UNCHANGED <<previous, storageVars, configVars, status, sqlVars,
                   queryVars>>

\* The nested wrapDatabase has returned or thrown: the hook goes on, the
\* suspended run with its own locals.
Leave ==
    /\ other.pc # "idle"
    /\ pc = "idle"
    /\ outcome.status \in {"returned", "threw"}
    /\ pc' = other.pc
    /\ initialVersion' = other.initialVersion
    /\ version' = other.version
    /\ log' = other.log
    /\ outcome' = other.outcome
    /\ other' = [pc |-> "idle", started |-> TRUE,
                 initialVersion |-> initialVersion, version |-> version,
                 log |-> log, outcome |-> outcome]
    /\ UNCHANGED <<previous, storageVars, configVars, status, sqlVars,
                   queryVars>>

NextReentrant ==
    \/ WrapDatabase
    \/ LoopTest
    \/ BeforeMigrate
    \/ Migrate
    \/ PersistVersion
    \/ Enter
    \/ Leave

\* Runs on a fresh storage, one after the other or one inside a hook of
\* another.
SpecReentrant == Init /\ [][NextReentrant]_vars

\* The versions a storage can hold when wrapDatabase is called on it: those
\* an earlier deployment wrote, whose migration list may have been longer
\* than the one configured now.
StoredVersions == 0..(MaxSteps + 1)

\* A storage that an earlier deployment left at version v: the table, the
\* row (none when no step was ever applied), the migrate hooks' statements.
StoredAt(v) ==
    /\ tableExists = TRUE
    /\ metadata = IF v = 0
                  THEN {}
                  ELSE { [key |-> "schema_version", value |-> NumberValue(v)] }
    /\ applied = { <<t, "migrate">> : t \in 1..v }

\* wrapDatabase called on a storage that an earlier deployment migrated.
InitDeployed ==
    /\ versions \in MigrationLists
    /\ hasObserver \in BOOLEAN
    /\ \E v \in StoredVersions : StoredAt(v)
    /\ pc = "idle"
    /\ initialVersion = 0
    /\ version = 0
    /\ log = <<>>
    /\ outcome = [status |-> "none", error |-> NoError]
    /\ previous = [status |-> "none", version |-> 0]
    /\ SideIdle
    /\ frag = SqlTag(<<<<>>>>, <<>>)
    /\ stmt = [none |-> TRUE]
    /\ callbacks = FALSE
    /\ QueryIdle

SpecDeployed == InitDeployed /\ [][Next]_vars

\* A value of the metadata row that is no number (the column is ANY).
TextValue == [type |-> "string", text |-> "2"]

\* A storage whose schema_version row holds a value that is no number.
StoredText ==
    /\ tableExists = TRUE
    /\ metadata = { [key |-> "schema_version", value |-> TextValue] }
    /\ applied = {}

\* getMigrationStatus(storage, migrations): the version read (the table
\* created if it is not there), the number of migrations, the steps from
\* the version on.
GetMigrationStatus ==
    /\ pc = "idle"
    /\ tableExists' = TRUE
    /\ LET got == GetSchemaVersion(metadata)
           currentVersion == got.currentVersion
           targetVersion == Len(versions)
           migrationsToApply == Slice(versions, currentVersion, Len(versions))
       IN  status' =
               IF got.error # NoError
               THEN [NoStatus EXCEPT !.status = "threw", !.error = got.error]
               ELSE [status |-> "returned", error |-> NoError,
                     currentVersion |-> currentVersion,
                     targetVersion |-> targetVersion,
                     migrationsToApply |-> Names(migrationsToApply)]
    /\ UNCHANGED <<metadata, applied, configVars, runVars, other, sqlVars,
                   queryVars>>

\* The storage is fresh, or an earlier deployment migrated it, or its
\* schema_version row holds a text.
InitStatus ==
    /\ versions \in MigrationLists
    /\ hasObserver \in BOOLEAN
    /\ \/ tableExists = FALSE /\ metadata = {} /\ applied = {}
       \/ \E v \in StoredVersions : StoredAt(v)
       \/ StoredText
    /\ pc = "idle"
    /\ initialVersion = 0
    /\ version = 0
    /\ log = <<>>
    /\ outcome = [status |-> "none", error |-> NoError]
    /\ previous = [status |-> "none", version |-> 0]
    /\ SideIdle
    /\ frag = SqlTag(<<<<>>>>, <<>>)
    /\ stmt = [none |-> TRUE]
    /\ callbacks = FALSE
    /\ QueryIdle

NextStatus ==
    \/ GetMigrationStatus
    \/ WrapDatabase
    \/ LoopTest
    \/ BeforeMigrate
    \/ Migrate
    \/ PersistVersion

SpecStatus == InitStatus /\ [][NextStatus]_vars

\* ------------------------------------------------------------ the sql machine

NoStatement == [none |-> TRUE]

\* sql`` : one empty literal segment and no slot
EmptyFragment == SqlTag(<<<<>>>>, <<>>)

\* The templates the caller can write over scalars alone.
LeafFragments ==
    UNION { { SqlTag(templateStrings, templateValues) :
                  templateStrings \in [1..(k + 1) -> Literals],
                  templateValues \in [1..k -> Primitives] } :
            k \in 0..MaxSlots }

InitSql ==
    /\ frag \in LeafFragments
    /\ stmt = NoStatement
    /\ versions = <<>>
    /\ hasObserver = FALSE
    /\ MigrateIdle
    /\ callbacks = FALSE
    /\ QueryIdle

\* The caller writes a template that nests the fragment built before: k slots
\* between k + 1 literal segments, each slot a scalar or that fragment.
TagCall ==
    \E k \in 1..(MaxSlots - TreeSlots(frag)) :
        \E templateStrings \in [1..(k + 1) -> Literals] :
            \E templateValues \in [1..k -> Primitives \cup {frag}] :
                LET fragment == SqlTag(templateStrings, templateValues)
                IN  /\ \E j \in 1..k : templateValues[j] = frag
                    /\ TreeSlots(fragment) <= MaxSlots
                    /\ frag' = fragment
                    /\ stmt' = NoStatement
                    /\ UNCHANGED <<migrateVars, queryVars>>

JoinCall ==
    \E k \in 0..MaxSlots :
        \E values \in [1..k -> Primitives] :
            /\ frag' = SqlJoin(values)
            /\ stmt' = NoStatement
            /\ UNCHANGED <<migrateVars, queryVars>>

ListCall ==
    \E k \in 0..MaxSlots :
        \E values \in [1..k -> Primitives] :
            /\ frag' = SqlList(values)
            /\ stmt' = NoStatement
            /\ UNCHANGED <<migrateVars, queryVars>>

BuildCall ==
    /\ stmt = NoStatement
    /\ stmt' = Build(frag)
    /\ UNCHANGED <<frag, migrateVars, queryVars>>

NextSql ==
    \/ TagCall
    \/ JoinCall
    \/ ListCall
    \/ BuildCall

SpecSql == InitSql /\ [][NextSql]_vars

\* The caller changes the array it gave to sql.join or sql.list, after the
\* call: values.push(p), values.pop() or values[j] = p. The fragment's
\* templateValues is that array, not a copy of it; the fragments of an empty
\* input hold an array of their own.
MutateValues ==
    /\ frag.ctor \in {"join", "list"}
    /\ \/ \E p \in Primitives :
              /\ Len(frag.templateValues) < MaxSlots
              /\ frag' = [frag EXCEPT !.templateValues = Append(@, p)]
       \/ /\ Len(frag.templateValues) > 0
          /\ frag' = [frag EXCEPT
                          !.templateValues = SubSeq(@, 1, Len(@) - 1)]
       \/ \E j \in 1..Len(frag.templateValues) :
              \E p \in Primitives \ {frag.templateValues[j]} :
                  frag' = [frag EXCEPT !.templateValues[j] = p]
    /\ UNCHANGED <<stmt, migrateVars, queryVars>>

NextAlias ==
    \/ TagCall
    \/ JoinCall
    \/ ListCall
    \/ BuildCall
    \/ MutateValues

\* The sql machine with a caller that keeps the arrays it hands over.
SpecAlias == InitSql /\ [][NextAlias]_vars

\* Primitive: the scalars of every kind a caller can put in a slot.
Scalars ==
    Primitives \cup
    { [kind |-> "boolean", text |-> <<"t">>],
      [kind |-> "boolean", text |-> <<"f">>],
      [kind |-> "null", text |-> <<>>],
      Undefined,
      [kind |-> "bytes", text |-> <<"x">>] }

\* The templates of one slot that holds a scalar of any kind.
TypedFragments ==
    { SqlTag(templateStrings, <<p>>) :
          templateStrings \in [1..2 -> Literals], p \in Scalars }

InitTypes ==
    /\ frag \in TypedFragments
    /\ stmt = NoStatement
    /\ versions = <<>>
    /\ hasObserver = FALSE
    /\ MigrateIdle
    /\ callbacks = FALSE
    /\ QueryIdle

\* The sql machine over templates with scalars of every kind.
SpecTypes == InitTypes /\ [][NextSql]_vars

\* ------------------------------------------------------- the query methods

\* The largest number of rows the storage returns for a statement.
MaxRows == 3

\* null of JavaScript
Null == [kind |-> "null", text |-> <<>>]

\* The rows the storage holds: SqlRow records of one column.
Rows == { [id |-> 1], [id |-> 2] }

\* cursor.toArray(): the rows the statement yields, in the engine's order
RowLists == UNION { [1..n -> Rows] : n \in 0..MaxRows }

\* What the engine rejects a statement with.
EngineError == [class |-> "Error", message |-> "SQLITE_ERROR"]

\* What storage.sql.exec does with a statement: it yields rows, or throws.
EngineReplies ==
    { [error |-> NoError, rows |-> list] : list \in RowLists }
        \cup { [error |-> EngineError, rows |-> <<>>] }

\* The row mappers a caller attaches: one total, one that throws on a row
\* it does not accept.
Mappers == {"upper", "strict"}

MapperError == [class |-> "Error", message |-> "bad row"]

\* mapper(row): the row it returns, or the error it throws
MapperResult(mapper, row) ==
    IF mapper = "strict" /\ row.id = 2
    THEN [error |-> MapperError, row |-> row]
    ELSE [error |-> NoError, row |-> [id |-> row.id, mapped |-> mapper]]

\* A bug that Map could have: a fragment of its own, the template left.
MapEmptyTemplate(fragment, mapper) ==
    [ctor |-> "sql", templateStrings |-> <<<<>>>>, templateValues |-> <<>>,
     mapper |-> mapper]

\* fragment.map(mapper): the fragment's build, isEmpty and template arrays,
\* and the mapper
Map(fragment, mapper) ==
    [ctor |-> fragment.ctor, templateStrings |-> fragment.templateStrings,
     templateValues |-> fragment.templateValues, mapper |-> mapper]

\* The fragments the caller queries with.
QueryFragments ==
    { SqlTag(<<<<"a", "?">>, <<>>>>, <<[kind |-> "number", text |-> <<"1">>]>>),
      SqlJoin(<<>>) }

\* sql`a?${value}`: a template with the value in its one slot
Nest(value) == SqlTag(<<<<"a", "?">>, <<>>>>, <<value>>)

\* FragmentOrStatement: a prepared statement, a fragment, a mapped fragment,
\* a fragment that nests a mapped fragment.
Statements ==
    { Statement(<<"a">>, FALSE, <<>>) }
        \cup QueryFragments
        \cup { Map(fragment, mapper) :
                   fragment \in QueryFragments, mapper \in Mappers }
        \cup { Nest(Map(fragment, "strict")) : fragment \in QueryFragments }

\* "mapper" in statement ? statement.mapper : null
MapperOf(s) == IF "mapper" \in DOMAIN s THEN s.mapper ELSE "null"

\* if ("build" in statement) statement = statement.build()
Prepared(s) == IF "ctor" \in DOMAIN s THEN Build(s) ELSE s

\* One call a query method made: the callee, the query text and the
\* parameters passed, the rows passed or returned, and what the call threw.
QueryEvent(op, query, values, data, error) ==
    [op |-> op, query |-> query, values |-> values, data |-> data,
     error |-> error]

Returns(value) == [status |-> "returned", value |-> value, error |-> NoError]

Throws(error) == [status |-> "threw", error |-> error]

ErrorOf(message) == [class |-> "Error", message |-> message]

\* callbacks?.beforeQuery?.(query)
BeforeQuery(query) ==
    IF callbacks
    THEN <<QueryEvent("beforeQuery", query, <<>>, <<>>, NoError)>>
    ELSE <<>>

\* A bug that AfterQuery could have: the callback invoked a second time.
AfterQueryTwice(query, result) ==
    IF callbacks
    THEN <<QueryEvent("afterQuery", query, <<>>, result, NoError),
           QueryEvent("afterQuery", query, <<>>, result, NoError)>>
    ELSE <<>>

\* callbacks?.afterQuery?.(query, result)
AfterQuery(query, result) ==
    IF callbacks
    THEN <<QueryEvent("afterQuery", query, <<>>, result, NoError)>>
    ELSE <<>>

\* A bug that MapRows could have: the images in reverse order.
MapRowsReversed(list, mapper) ==
    [i \in 1..Len(list) |->
        MapperResult(mapper, list[Len(list) + 1 - i]).row]

\* rows.map(mapper) when the mapper returns for every row
MapRows(list, mapper) ==
    [i \in 1..Len(list) |-> MapperResult(mapper, list[i]).row]

\* The index of the first row that the mapper throws on, 0 when none.
FirstThrow(list, mapper) ==
    LET bad == { i \in 1..Len(list) :
                     MapperResult(mapper, list[i]).error # NoError }
    IN  IF bad = {} THEN 0 ELSE CHOOSE i \in bad : \A j \in bad : i <= j

\* rows[0] of JavaScript
FirstRow(list) == IF Len(list) > 0 THEN list[1] ELSE Undefined

\* A bug that QueryNone could have: rows returned are let pass.
QueryNoneSilent(list) == Returns(Undefined)

QueryNone(list) ==
    IF Len(list) > 0
    THEN Throws(ErrorOf("Expected no rows, got " \o ToString(Len(list))))
    ELSE Returns(Undefined)

\* A bug that QueryNoneOrOne could have: the first of several rows returned.
QueryNoneOrOneFirst(list) ==
    IF Len(list) >= 1 THEN Returns(list[1]) ELSE Returns(Null)

QueryNoneOrOne(list) ==
    IF Len(list) > 1
    THEN Throws(ErrorOf("Expected at most one row, got "
                            \o ToString(Len(list))))
    ELSE Returns(IF Len(list) = 1 THEN list[1] ELSE Null)

\* A bug that QueryOne could have: the test of queryNoneOrOne.
QueryOneAtMost(list) ==
    IF Len(list) > 1
    THEN Throws(ErrorOf("Expected one row, got " \o ToString(Len(list))))
    ELSE Returns(FirstRow(list))

QueryOne(list) ==
    IF Len(list) # 1
    THEN Throws(ErrorOf("Expected one row, got " \o ToString(Len(list))))
    ELSE Returns(list[1])

QueryMany(list) == Returns([kind |-> "array", items |-> list])

Methods == {"queryNone", "queryNoneOrOne", "queryOne", "queryMany"}

\* What the method m makes of the rows that queryCommon returned.
Shape(m, list) ==
    CASE m = "queryNone"      -> QueryNone(list)
      [] m = "queryNoneOrOne" -> QueryNoneOrOne(list)
      [] m = "queryOne"       -> QueryOne(list)
      [] OTHER                -> QueryMany(list)

\* A query method is called: queryCommon up to afterQuery. The statement is
\* built, beforeQuery is called, the engine executes the statement and
\* yields rows or rejects it, afterQuery is called with the rows.
QueryCommon ==
    /\ qpc = "idle"
    /\ \E m \in Methods, s \in Statements, reply \in EngineReplies :
           LET prepared == Prepared(s)
               before == BeforeQuery(prepared.query)
               exec == <<QueryEvent("exec", prepared.query,
                                    ParamsOf(prepared), reply.rows,
                                    reply.error)>>
               after == AfterQuery(prepared.query, reply.rows)
           IN  /\ method' = m
               /\ queryStatement' = s
               /\ queryRows' = reply.rows
               /\ IF reply.error # NoError
                  THEN /\ calls' = before \o exec
                       /\ qpc' = "idle"
                       /\ answer' = Throws(reply.error)
                  ELSE /\ calls' = before \o exec \o after
                       /\ qpc' = "map"
                       /\ answer' = [status |-> "running", error |-> NoError]
    /\ UNCHANGED <<callbacks, sqlVars, migrateVars>>

\* if (mapper) rows = rows.map(mapper); return rows: the mapper is called
\* on each row in order, up to the first row it throws on.
QueryMap ==
    /\ qpc = "map"
    /\ LET mapper == MapperOf(queryStatement)
           stop == FirstThrow(queryRows, mapper)
           called == IF stop = 0 THEN Len(queryRows) ELSE stop
       IN  IF mapper = "null"
           THEN /\ qpc' = "check"
                /\ UNCHANGED <<queryRows, calls, answer>>
           ELSE /\ calls' = calls \o
                        [i \in 1..called |->
                            QueryEvent("mapper", <<>>, <<>>,
                                       <<queryRows[i]>>,
                                       MapperResult(mapper,
                                                    queryRows[i]).error)]
                /\ IF stop = 0
                   THEN /\ queryRows' = MapRows(queryRows, mapper)
                        /\ qpc' = "check"
                        /\ UNCHANGED answer
                   ELSE /\ qpc' = "idle"
                        /\ answer' = Throws(MapperError)
                        /\ UNCHANGED queryRows
    /\ UNCHANGED <<callbacks, method, queryStatement, sqlVars,
                   migrateVars>>

\* The method's own lines after queryCommon returned: the test of
\* rows.length, the throw or the return.
QueryCheck ==
    /\ qpc = "check"
    /\ answer' = Shape(method, queryRows)
    /\ qpc' = "idle"
    /\ UNCHANGED <<callbacks, method, queryStatement, queryRows, calls,
                   sqlVars, migrateVars>>

InitQuery ==
    /\ callbacks \in BOOLEAN
    /\ QueryIdle
    /\ frag = EmptyFragment
    /\ stmt = NoStatement
    /\ versions = <<>>
    /\ hasObserver = FALSE
    /\ MigrateIdle

NextQuery ==
    \/ QueryCommon
    \/ QueryMap
    \/ QueryCheck

SpecQuery == InitQuery /\ [][NextQuery]_vars

\* What storage.sql.exec does with a statement that run executes: a cursor
\* with its two counters, or a throw.
RunReplies ==
    { [error |-> NoError, result |-> [rowsRead |-> r, rowsWritten |-> w]] :
          r \in 0..1, w \in 0..1 }
        \cup { [error |-> EngineError,
                result |-> [rowsRead |-> 0, rowsWritten |-> 0]] }

\* The pragmas the caller asks for.
Pragmas == { <<"t">>, <<"u", "v">> }

\* `PRAGMA ${pragma}`
PragmaQuery(pragma) == <<"P", "R", "A", "G", "M", "A", " ">> \o pragma

\* Object.values(row)[0]: the value of the row's one column
FirstColumn(row) == [kind |-> "number", text |-> <<ToString(row.id)>>]

\* run(statement), the whole method: the statement is built, beforeQuery is
\* called, the engine executes the statement, afterQuery is called with the
\* cursor's counters, which are returned.
Run ==
    /\ qpc = "idle"
    /\ \E s \in Statements, reply \in RunReplies :
           LET prepared == Prepared(s)
               exec == <<QueryEvent("exec", prepared.query,
                                    ParamsOf(prepared), reply.result,
                                    reply.error)>>
           IN  /\ method' = "run"
               /\ queryStatement' = s
               /\ IF reply.error # NoError
                  THEN /\ calls' = BeforeQuery(prepared.query) \o exec
                       /\ answer' = Throws(reply.error)
                  ELSE /\ calls' = BeforeQuery(prepared.query) \o exec
                               \o AfterQuery(prepared.query, reply.result)
                       /\ answer' = Returns(reply.result)
    /\ queryRows' = <<>>
    /\ qpc' = "idle"
    /\ UNCHANGED <<callbacks, sqlVars, migrateVars>>

\* pragma(pragma), the whole method: the first column of the first row, or
\* null, is returned after afterQuery was called with the rows.
Pragma ==
    /\ qpc = "idle"
    /\ \E pragma \in Pragmas, reply \in EngineReplies :
           LET query == PragmaQuery(pragma)
               exec == <<QueryEvent("exec", query, <<>>, reply.rows,
                                    reply.error)>>
               result == IF Len(reply.rows) > 0
                         THEN FirstColumn(reply.rows[1])
                         ELSE Null
           IN  /\ method' = "pragma"
               /\ queryStatement' = Statement(query, FALSE, <<>>)
               /\ queryRows' = reply.rows
               /\ IF reply.error # NoError
                  THEN /\ calls' = BeforeQuery(query) \o exec
                       /\ answer' = Throws(reply.error)
                  ELSE /\ calls' = BeforeQuery(query) \o exec
                               \o AfterQuery(query, reply.rows)
                       /\ answer' = Returns(result)
    /\ qpc' = "idle"
    /\ UNCHANGED <<callbacks, sqlVars, migrateVars>>

\* pragmaFull(pragma), the whole method: the rows are returned after
\* afterQuery was called with them.
PragmaFull ==
    /\ qpc = "idle"
    /\ \E pragma \in Pragmas, reply \in EngineReplies :
           LET query == PragmaQuery(pragma)
               exec == <<QueryEvent("exec", query, <<>>, reply.rows,
                                    reply.error)>>
           IN  /\ method' = "pragmaFull"
               /\ queryStatement' = Statement(query, FALSE, <<>>)
               /\ queryRows' = reply.rows
               /\ IF reply.error # NoError
                  THEN /\ calls' = BeforeQuery(query) \o exec
                       /\ answer' = Throws(reply.error)
                  ELSE /\ calls' = BeforeQuery(query) \o exec
                               \o AfterQuery(query, reply.rows)
                       /\ answer' = QueryMany(reply.rows)
    /\ qpc' = "idle"
    /\ UNCHANGED <<callbacks, sqlVars, migrateVars>>

\* A wrapper created with both callbacks.
InitCallbacks ==
    /\ callbacks = TRUE
    /\ QueryIdle
    /\ frag = EmptyFragment
    /\ stmt = NoStatement
    /\ versions = <<>>
    /\ hasObserver = FALSE
    /\ MigrateIdle

NextCallbacks ==
    \/ QueryCommon
    \/ QueryMap
    \/ QueryCheck
    \/ Run
    \/ Pragma
    \/ PragmaFull

\* Every method of a wrapper that has callbacks.
SpecCallbacks == InitCallbacks /\ [][NextCallbacks]_vars

\* -------------------------------------------- claims on the migration runner

\* The persisted schema version, read off the table: 0 without a row.
Persisted ==
    IF \E r \in metadata : r.key = "schema_version"
    THEN (CHOOSE r \in metadata : r.key = "schema_version").value.num
    ELSE 0

Last(seq) == seq[Len(seq)]

IsPrefix(a, b) == Len(a) <= Len(b) /\ SubSeq(b, 1, Len(a)) = a

HookOps == {"beforeMigrate", "migrate"}

IsStepCall(event) == event.op \in HookOps \cup {"run"}

IsWrite(event) == event.op = "run"

IsMigrateReturn(event) == event.op = "migrate" /\ event.result = NoError

\* The calls a run makes for the steps up to target version t when it
\* starts from version v and no hook throws.
RECURSIVE ExpectedCalls(_, _)
ExpectedCalls(v, t) ==
    IF t <= v
    THEN <<>>
    ELSE ExpectedCalls(v, t - 1)
         \o (IF versions[t].hasBeforeMigrate
             THEN <<Event("beforeMigrate", t, <<versions[t].name>>, NoError)>>
             ELSE <<>>)
         \o <<Event("migrate", t, <<versions[t].name>>, NoError),
              Event("run", t, <<>>, NoError)>>

\* C4: a run that starts from persisted version v and in which no hook
\* throws calls, for each step from v to N - 1 in ascending order,
\* beforeMigrate (if given) and then migrate, each once, writes the step's
\* target version right after its migrate and before the next step's first
\* call, and ends with persisted version N; all along the run the persisted
\* version is the version read plus the writes made so far.
C4_RunAppliesPendingStepsInOrder ==
    /\ (pc = "idle" /\ outcome = Returned) =>
           /\ SelectSeq(log, IsStepCall)
                  = ExpectedCalls(initialVersion, Len(versions))
           /\ Persisted = Len(versions)
    /\ outcome.status \in {"running", "returned"} =>
           /\ Persisted = initialVersion + Len(SelectSeq(log, IsWrite))
           /\ IsPrefix(SelectSeq(log, IsStepCall),
                       ExpectedCalls(initialVersion, Len(versions)))

\* C4's case: a run over three steps that started from persisted version 1,
\* called a beforeMigrate hook, and returned.
C4_Witness ==
    /\ pc = "idle"
    /\ outcome = Returned
    /\ Len(versions) = 3
    /\ initialVersion = 1
    /\ Len(SelectSeq(log, IsWrite)) = 2
    /\ \E n \in 1..Len(log) : log[n].op = "beforeMigrate"

\* C5: when beforeMigrate or migrate of the step with target version t
\* throws, the run is over at that call: the call is the last one of the run,
\* wrapDatabase has thrown, no call for a later step and no write of t was
\* made, and the persisted version is t - 1.
C5_FailingStepAbortsRun ==
    \A n \in 1..Len(log) :
        (log[n].op \in HookOps /\ log[n].result # NoError) =>
            /\ n = Len(log)
            /\ pc = "idle"
            /\ outcome.status = "threw"
            /\ Persisted = log[n].step - 1
            /\ \A m \in 1..Len(log) :
                   /\ log[m].step <= log[n].step
                   /\ IsWrite(log[m]) => log[m].step < log[n].step

\* C5's case: step 2 of three threw in migrate after step 1 was applied in
\* the same run.
C5_Witness ==
    /\ Len(versions) = 3
    /\ initialVersion = 0
    /\ log # <<>>
    /\ Last(log).op = "migrate"
    /\ Last(log).step = 2
    /\ Last(log).result # NoError
    /\ Persisted = 1

\* A hook was called in this step.
HookCalled ==
    /\ Len(log') = Len(log) + 1
    /\ SubSeq(log', 1, Len(log)) = log
    /\ Last(log').op \in HookOps

\* C6: every call of a step hook, in any run, is for the step at the index
\* of the version persisted at that time: a run resumes at the persisted
\* version and no hook of a step below it is called again.
C6_RunResumesFromPersistedVersion ==
    [][HookCalled => Last(log').step = Persisted + 1]_vars

\* C6's case: the run before threw at step 2 and this one, started from
\* persisted version 1, has called a hook of step 2.
C6_Witness ==
    /\ previous = [status |-> "threw", version |-> 1]
    /\ initialVersion = 1
    /\ log # <<>>
    /\ Last(log).op \in HookOps
    /\ Last(log).step = 2

\* C7: a run started when the persisted version is the number of configured
\* migrations returns at once: no observer and no hook is called, no row is
\* written, the hooks' tables are as they were, and the version stays; every
\* such run, however often repeated.
C7_RunAtTargetVersionIsNoOp ==
    [][(pc = "idle" /\ Persisted = Len(versions)) =>
           /\ pc' = "idle"
           /\ log' = <<>>
           /\ outcome' = Returned
           /\ metadata' = metadata
           /\ applied' = applied
           /\ Persisted' = Len(versions)]_vars

\* C7's case: with an observer and two steps or more, a run at the target
\* version that came after another run at the target version.
C7_Witness ==
    /\ pc = "idle"
    /\ hasObserver
    /\ Len(versions) >= 2
    /\ Persisted = Len(versions)
    /\ initialVersion = Len(versions)
    /\ outcome = Returned
    /\ log = <<>>
    /\ previous = [status |-> "returned", version |-> Len(versions)]

\* The version row was written in this step.
VersionWritten ==
    \/ metadata' # metadata
    \/ /\ Len(log') = Len(log) + 1
       /\ IsWrite(Last(log'))

\* C8: the persisted version never decreases; every write of it raises it by
\* exactly 1 and comes right after the migrate hook of that very step
\* returned, in a run in which no hook threw; and a run has made as many
\* writes as migrate hooks returned (one fewer while the write is due).
C8_VersionWrittenOncePerCompletedStep ==
    /\ [](Len(SelectSeq(log, IsWrite)) + (IF pc = "persist" THEN 1 ELSE 0)
              = Len(SelectSeq(log, IsMigrateReturn)))
    /\ [][/\ Persisted' >= Persisted
          /\ VersionWritten =>
                 /\ Persisted' = Persisted + 1
                 /\ outcome.status = "running"
                 /\ log # <<>>
                 /\ IsMigrateReturn(Last(log))
                 /\ Last(log).step = Persisted'
                 /\ \A n \in 1..Len(log) : log[n].result = NoError]_vars

\* C8's case: the version was written a second time, in a run that resumed
\* after a failed one.
C8_Witness ==
    /\ previous.status = "threw"
    /\ log # <<>>
    /\ IsWrite(Last(log))
    /\ Last(log).step = 2
    /\ Persisted = 2

\* wrapDatabase threw what a hook of a step threw.
StepHookThrew ==
    /\ pc = "idle"
    /\ outcome.status = "threw"
    /\ log # <<>>
    /\ Last(log).op \in HookOps

C10_ObserverCalledOnceWithPendingSlice ==
    (/\ outcome.status \in {"running", "returned", "threw"}
     /\ outcome.error # InvalidSchemaVersion
     /\ initialVersion < Len(versions)) =>
        IF hasObserver
        THEN /\ log # <<>>
             /\ log[1].op = "beforeMigration"
             /\ log[1].names =
                    [i \in 1..(Len(versions) - initialVersion) |->
                        versions[initialVersion + i].name]
             /\ \A n \in 2..Len(log) : log[n].op # "beforeMigration"
        ELSE \A n \in 1..Len(log) : log[n].op # "beforeMigration"

\* C10's case: a run from version 1 of 3 called the observer and then hooks.
C10_Witness ==
    /\ hasObserver
    /\ Len(versions) = 3
    /\ initialVersion = 1
    /\ Len(log) >= 3
    /\ log[1].op = "beforeMigration"
    /\ Len(log[1].names) = 2
    /\ log[3].op \in HookOps

\* C11 as claimed: the observer is never called with an empty slice, and a
\* run that read a version at or above the number of configured migrations
\* (the slice from it is empty) makes no call at all: no observer, no hook,
\* no write.
C11_ObserverNeverCalledWithEmptySlice ==
    /\ \A n \in 1..Len(log) :
           log[n].op = "beforeMigration" => log[n].names # <<>>
    /\ (outcome.status # "none" /\ initialVersion >= Len(versions)) =>
           log = <<>>

\* C24: the runner undoes nothing: what the hooks' statements did to the
\* storage stays, in every step; a hook that throws leaves the persisted
\* version at the step's index, whatever its statements did before; and
\* every hook call, a retry's included, is for the step at the persisted
\* version, made on the storage as the calls before left it.
C24_FailedStepIsNotRolledBack ==
    [][/\ applied \subseteq applied'
       /\ HookCalled =>
              /\ Last(log').step = Persisted + 1
              /\ Last(log').result # NoError =>
                     /\ Persisted' = Persisted
                     /\ pc' = "idle"
                     /\ outcome'.status = "threw"]_vars

\* C24's case: migrate of step 2 threw after some of its statements, the
\* version stayed 1, and the retry is about to call migrate of step 2 on the
\* storage that holds those statements.
C24_Witness ==
    /\ previous = [status |-> "threw", version |-> 1]
    /\ Persisted = 1
    /\ <<2, "migrate">> \in applied
    /\ pc = "migrate"
    /\ version = 1
    /\ initialVersion = 1

\* C26: as long as no run has started inside another (no hook has called
\* wrapDatabase), the persisted version never decreases, each write raises
\* it by 1 to the step whose migrate has just returned, and a step's hook
\* is invoked only while the persisted version is the one below the step:
\* a step whose migrate returned is invoked by no later run, one whose hook
\* threw is invoked again.
C26_SerializedRunsAreSafe ==
    [][~other.started' =>
           /\ Persisted' >= Persisted
           /\ HookCalled =>
                  /\ Last(log').step = Persisted + 1
                  /\ IsMigrateReturn(Last(log')) => pc' = "persist"
           /\ VersionWritten =>
                  /\ Persisted' = Persisted + 1
                  /\ IsMigrateReturn(Last(log))
                  /\ Last(log).step = Persisted']_vars

\* C26's case: a run started inside a hook of step t read the version
\* before the outer run persisted t; both runs invoked migrate of step t,
\* the nested run wrote a version above t, and then the outer run wrote t
\* over it.
C26_Witness ==
    /\ other.started
    /\ other.pc = "idle"
    /\ log # <<>>
    /\ IsWrite(Last(log))
    /\ Persisted = Last(log).step
    /\ \E n \in 1..Len(log) :
           IsMigrateReturn(log[n]) /\ log[n].step = Persisted
    /\ \E n \in 1..Len(other.log) :
           IsMigrateReturn(other.log[n]) /\ other.log[n].step = Persisted
    /\ \E n \in 1..Len(other.log) :
           IsWrite(other.log[n]) /\ other.log[n].step > Persisted

\* The value of the schema_version row is no number.
Corrupt ==
    \E r \in metadata : r.key = "schema_version" /\ r.value.type # "number"

\* getMigrationStatus was called in this step (its result is a new one).
StatusCalled == status' # status

\* C21 as claimed: a call of getMigrationStatus leaves the storage as it
\* was, its tables and the schema_version row, invokes no hook, and returns
\* the persisted version (0 without a row), the number of migrations, and
\* the steps of index at or above the version.
C21_GetMigrationStatusIsPureRead ==
    [][(StatusCalled /\ ~Corrupt) =>
           /\ tableExists' = tableExists
           /\ metadata' = metadata
           /\ applied' = applied
           /\ log' = log
           /\ status'.status = "returned"
           /\ status'.currentVersion = Persisted
           /\ status'.targetVersion = Len(versions)
           /\ status'.migrationsToApply =
                  [i \in 1..(IF Persisted < Len(versions)
                             THEN Len(versions) - Persisted
                             ELSE 0) |-> versions[Persisted + i].name]]_vars

\* C22 as claimed: whenever wrapDatabase returns normally, the persisted
\* version is the number of configured migrations, whatever integer version
\* was persisted before the call.
C22_ReturnedRunEndsAtN ==
    (pc = "idle" /\ outcome = Returned) => Persisted = Len(versions)

\* C30: while the schema_version row holds a value that is no number, every
\* migration run and every getMigrationStatus call ends with the error
\* "Invalid schema_version", a run having called neither the observer nor
\* a hook nor written anything; and no step changes the row or the hooks'
\* tables.
C30_InvalidSchemaVersionFailsBeforeHooks ==
    /\ [](Corrupt =>
             /\ pc = "idle"
             /\ log = <<>>
             /\ outcome.status # "none" =>
                    outcome = Threw(InvalidSchemaVersion)
             /\ status.status # "none" =>
                    /\ status.status = "threw"
                    /\ status.error = InvalidSchemaVersion)
    /\ [][Corrupt => metadata' = metadata /\ applied' = applied]_vars

\* C30's case: on a storage with a text in the row, a run with an observer
\* and steps to apply, and a getMigrationStatus call, have both thrown.
C30_Witness ==
    /\ Corrupt
    /\ hasObserver
    /\ Len(versions) >= 2
    /\ outcome.status = "threw"
    /\ status.status = "threw"

\* ----------------------------------------------- claims on the query methods

IsExec(call) == call.op = "exec"

IsMapperCall(call) == call.op = "mapper"

\* The engine executed the statement of the last call and yielded rows.
EngineReplied ==
    \E n \in 1..Len(calls) : IsExec(calls[n]) /\ calls[n].error = NoError

\* The raw rows: what the engine yielded for the statement.
RawRows == SelectSeq(calls, IsExec)[1].data

\* The last call was made with a statement that carries no mapper.
Unmapped == "mapper" \notin DOMAIN queryStatement

\* Every call of the mapper returned (none was made without a mapper).
MapperReturned ==
    \A n \in 1..Len(calls) : IsMapperCall(calls[n]) => calls[n].error = NoError

\* What the caller gets for a raw row: the row, or the mapper's image of it.
Image(row) ==
    IF Unmapped THEN row ELSE MapperResult(queryStatement.mapper, row).row

\* The call of the method m has ended, the engine having yielded rows and
\* the mapper, if any, having returned for each.
Shaped(m) ==
    /\ method = m
    /\ qpc = "idle"
    /\ EngineReplied
    /\ MapperReturned

\* C12: queryOne on a statement that yields exactly 1 raw row returns that
\* row (its image under a mapper that returns), and for every other raw row
\* count n, 0 or 2 and more, throws an Error with the message
\* "Expected one row, got n".
C12_QueryOneReturnsSingleRowOrThrows ==
    Shaped("queryOne") =>
        IF Len(RawRows) = 1
        THEN answer = Returns(Image(RawRows[1]))
        ELSE answer = Throws([class |-> "Error",
                              message |-> "Expected one row, got "
                                          \o ToString(Len(RawRows))])

\* C12's case: queryOne on a plain fragment whose statement yielded 2 rows
\* has thrown.
C12_Witness ==
    /\ Shaped("queryOne")
    /\ Unmapped
    /\ "ctor" \in DOMAIN queryStatement
    /\ Len(RawRows) = 2
    /\ answer.status = "threw"

\* C13: queryNoneOrOne returns null when the statement yields 0 rows, the
\* row (its image under a mapper that returns) when it yields exactly 1, and
\* throws an Error with the message "Expected at most one row, got n" when
\* it yields n >= 2 rows.
C13_QueryNoneOrOneReturnsNullRowOrThrows ==
    Shaped("queryNoneOrOne") =>
        CASE Len(RawRows) = 0 -> answer = Returns(Null)
          [] Len(RawRows) = 1 -> answer = Returns(Image(RawRows[1]))
          [] OTHER ->
                 answer = Throws([class |-> "Error",
                                  message |-> "Expected at most one row, got "
                                              \o ToString(Len(RawRows))])

\* C13's case: queryNoneOrOne on a statement that yielded no row has
\* returned null.
C13_Witness ==
    /\ Shaped("queryNoneOrOne")
    /\ Unmapped
    /\ Len(RawRows) = 0
    /\ answer.status = "returned"
    /\ answer.value = Null

\* C14: queryNone returns undefined when the statement yields 0 rows and
\* throws an Error with the message "Expected no rows, got n" when it yields
\* n >= 1 rows; from the engine's reply on, the test of the row count
\* included, the statement built from the argument has been executed
\* exactly once, with its parameters.
C14_QueryNoneExecutesOnceThenChecks ==
    /\ (method = "queryNone" /\ EngineReplied) =>
           /\ Len(SelectSeq(calls, IsExec)) = 1
           /\ SelectSeq(calls, IsExec)[1].query
                  = Prepared(queryStatement).query
           /\ SelectSeq(calls, IsExec)[1].values
                  = ParamsOf(Prepared(queryStatement))
    /\ Shaped("queryNone") =>
           IF Len(RawRows) = 0
           THEN answer = Returns(Undefined)
           ELSE answer = Throws([class |-> "Error",
                                 message |-> "Expected no rows, got "
                                             \o ToString(Len(RawRows))])

\* C14's case: queryNone on a statement with a parameter, executed once, has
\* thrown for the one row it yielded.
C14_Witness ==
    /\ Shaped("queryNone")
    /\ Unmapped
    /\ Len(SelectSeq(calls, IsExec)) = 1
    /\ Len(SelectSeq(calls, IsExec)[1].values) = 1
    /\ Len(RawRows) = 1
    /\ answer.status = "threw"

\* C15 as claimed: in a call of queryOne, queryNoneOrOne or queryNone with
\* a mapped fragment whose raw row count fails the method's check, the
\* mapper is called on no row, and the call ends with the method's error
\* for the raw row count.
C15_MapperAppliedAfterCardinalityCheck ==
    (/\ method \in {"queryOne", "queryNoneOrOne", "queryNone"}
     /\ ~Unmapped
     /\ EngineReplied
     /\ Shape(method, RawRows).status = "threw") =>
        /\ \A n \in 1..Len(calls) : ~IsMapperCall(calls[n])
        /\ qpc = "idle" => answer = Shape(method, RawRows)

\* C16: queryMany returns the raw rows, as many and in the engine's order,
\* the empty list included; with a mapped fragment whose mapper returns, it
\* returns the list of the rows' images, as many and in the same order; it
\* throws only what the mapper threw.
C16_QueryManyReturnsRowsInOrder ==
    /\ Shaped("queryMany") =>
           /\ answer.status = "returned"
           /\ Len(answer.value.items) = Len(RawRows)
           /\ \A i \in 1..Len(RawRows) :
                  answer.value.items[i] = Image(RawRows[i])
           /\ Unmapped => answer.value.items = RawRows
    /\ (method = "queryMany" /\ qpc = "idle" /\ EngineReplied
            /\ ~MapperReturned) =>
           answer = Throws(MapperError)

\* C16's case: queryMany with a mapped fragment has returned the images of
\* two different rows.
C16_Witness ==
    /\ Shaped("queryMany")
    /\ ~Unmapped
    /\ Len(RawRows) = 2
    /\ RawRows[1] # RawRows[2]
    /\ answer.status = "returned"
    /\ answer.value.items[1].id = RawRows[1].id

\* ------------------------------------------------- claims on the sql machine

\* What a fragment tree denotes, read off the tree alone: its literal
\* characters and its scalar slots in depth-first, left-to-right order.
IsScalar(value) == "kind" \in DOMAIN value

LiteralItems(literal) ==
    [p \in 1..Len(literal) |->
        [slot |-> FALSE, ch |-> literal[p], value |-> Undefined]]

RECURSIVE FlatItemsUpTo(_, _)
FlatItemsOfSlot(value) ==
    IF IsScalar(value)
    THEN <<[slot |-> TRUE, ch |-> "?", value |-> value]>>
    ELSE FlatItemsUpTo(value, Len(value.templateStrings))

FlatItemsUpTo(fragment, n) ==
    IF n = 0
    THEN <<>>
    ELSE FlatItemsUpTo(fragment, n - 1)
         \o (IF n > 1
             THEN FlatItemsOfSlot(fragment.templateValues[n - 1])
             ELSE <<>>)
         \o LiteralItems(fragment.templateStrings[n])

FlatItems(fragment) == FlatItemsUpTo(fragment, Len(fragment.templateStrings))

IsSlotItem(item) == item.slot

ScalarSlots(fragment) == SelectSeq(FlatItems(fragment), IsSlotItem)

CountOf(ch, text) == Cardinality({ p \in 1..Len(text) : text[p] = ch })

LiteralQuestionMarks(fragment) ==
    LET items == FlatItems(fragment)
    IN  Cardinality({ p \in 1..Len(items) :
                          ~items[p].slot /\ items[p].ch = "?" })

\* The position in the text of the i-th scalar slot of the tree.
SlotPosition(fragment, i) ==
    LET items == FlatItems(fragment)
    IN  CHOOSE p \in 1..Len(items) :
            /\ items[p].slot
            /\ Cardinality({ q \in 1..p : items[q].slot }) = i

\* C1: build() of a tree with k scalar slots returns exactly these k scalars
\* as parameters, in depth-first left-to-right slot order, and a text with
\* one "?" per scalar slot, written where the slot stands: the text has as
\* many characters as the tree has literal characters and scalar slots, the
\* i-th placeholder written stands at the place of the i-th scalar slot, whose
\* value is the i-th parameter, and the text holds k "?" beyond those of the
\* literal segments.
C1_PlaceholdersAndParameters ==
    stmt # NoStatement =>
        LET slots == ScalarSlots(frag)
            k == Len(slots)
            params == ParamsOf(stmt)
        IN  /\ Len(params) = k
            /\ \A i \in 1..k : params[i] = slots[i].value
            /\ Len(stmt.query) = Len(FlatItems(frag))
            /\ \A i \in 1..k : stmt.query[SlotPosition(frag, i)] = "?"
            /\ CountOf("?", stmt.query) = k + LiteralQuestionMarks(frag)

\* C1's case: a built tree whose nested fragment holds a scalar and stands
\* left of a different scalar of the parent.
C1_Witness ==
    /\ stmt # NoStatement
    /\ Len(frag.templateValues) = 2
    /\ ~IsScalar(frag.templateValues[1])
    /\ IsScalar(frag.templateValues[2])
    /\ Len(ParamsOf(stmt)) = 2
    /\ ParamsOf(stmt)[1] # ParamsOf(stmt)[2]

\* The nodes of a tree: the fragment and every fragment nested in it.
RECURSIVE Nodes(_)
Nodes(fragment) ==
    {fragment} \cup
    UNION { Nodes(fragment.templateValues[j]) :
                j \in { j \in 1..Len(fragment.templateValues) :
                            ~IsScalar(fragment.templateValues[j]) } }

\* The text and the parameters that a node's own flattening must have, given
\* the flattening of its children.
RECURSIVE SplicedTextUpTo(_, _)
SplicedTextUpTo(node, n) ==
    IF n = 0
    THEN <<>>
    ELSE SplicedTextUpTo(node, n - 1)
         \o (IF n > 1
             THEN IF IsScalar(node.templateValues[n - 1])
                  THEN <<"?">>
                  ELSE Build(node.templateValues[n - 1]).query
             ELSE <<>>)
         \o node.templateStrings[n]

SplicedText(node) == SplicedTextUpTo(node, Len(node.templateStrings))

RECURSIVE SplicedParamsUpTo(_, _)
SplicedParamsUpTo(node, n) ==
    IF n = 0
    THEN <<>>
    ELSE SplicedParamsUpTo(node, n - 1)
         \o (IF IsScalar(node.templateValues[n])
             THEN <<node.templateValues[n]>>
             ELSE ParamsOf(Build(node.templateValues[n])))

SplicedParams(node) == SplicedParamsUpTo(node, Len(node.templateValues))

\* C2: a slot holding a nested fragment gets no placeholder and no parameter
\* of its own: the text of the built tree is, slot by slot, the literal
\* before the slot, then the child's flattened text (or "?" for a scalar),
\* then the literal after it, and its parameters are the children's
\* parameters and the scalars in slot order; the same holds of every
\* fragment nested in the tree, at any depth.
C2_NestedFragmentsSplicedInPlace ==
    stmt # NoStatement =>
        /\ stmt.query = SplicedText(frag)
        /\ ParamsOf(stmt) = SplicedParams(frag)
        /\ \A node \in Nodes(frag) :
               /\ Build(node).query = SplicedText(node)
               /\ ParamsOf(Build(node)) = SplicedParams(node)

\* C2's case: a built tree nested two levels deep, with a literal before the
\* outer slot and a parameter coming from the innermost fragment.
C2_Witness ==
    /\ stmt # NoStatement
    /\ Len(frag.templateValues) = 1
    /\ frag.templateStrings[1] # <<>>
    /\ ~IsScalar(frag.templateValues[1])
    /\ \E child \in Nodes(frag.templateValues[1]) \ {frag.templateValues[1]} :
           Len(ParamsOf(Build(child))) = 1
    /\ Len(ParamsOf(stmt)) = 1

\* The same tree with every scalar slot holding the scalar p.
RECURSIVE Substitute(_, _)
Substitute(fragment, p) ==
    [fragment EXCEPT !.templateValues =
        [j \in 1..Len(fragment.templateValues) |->
            IF IsScalar(fragment.templateValues[j])
            THEN p
            ELSE Substitute(fragment.templateValues[j], p)]]

LiteralLength(fragment) ==
    Len(FlatItems(fragment)) - Len(ScalarSlots(fragment))

\* C3: the text of build() does not depend on the scalar values: the same
\* tree with any scalar in its scalar slots builds to the same text, and the
\* text has no character besides those of the literal segments and one "?"
\* per scalar slot; the scalars are in the parameter list.
C3_TextIndependentOfScalars ==
    stmt # NoStatement =>
        /\ \A p \in Primitives : Build(Substitute(frag, p)).query = stmt.query
        /\ Len(stmt.query) = LiteralLength(frag) + Len(ScalarSlots(frag))
        /\ \A i \in 1..Len(ScalarSlots(frag)) :
               ParamsOf(stmt)[i] = ScalarSlots(frag)[i].value

\* C3's case: a built tree with a string of SQL text in a scalar slot, and
\* no quote in the text built.
C3_Witness ==
    /\ stmt # NoStatement
    /\ \E i \in 1..Len(ParamsOf(stmt)) :
           /\ ParamsOf(stmt)[i].kind = "string"
           /\ CountOf("'", ParamsOf(stmt)[i].text) > 0
    /\ CountOf("'", stmt.query) = 0
    /\ Len(stmt.query) > 1

\* "?" written k times with ", " between: no separator for k = 1.
RECURSIVE JoinedPlaceholders(_)
JoinedPlaceholders(k) ==
    IF k = 1 THEN <<"?">> ELSE JoinedPlaceholders(k - 1) \o <<",", " ", "?">>

\* C17: the fragment that sql.join or sql.list returns for k >= 1 scalars
\* builds to the text "?, ?, ..., ?" of k placeholders and k - 1 separators
\* ", " and nothing else, between one "(" and one ")" for sql.list, and to
\* the k input values as parameters, in input order.
C17_HelperPlaceholdersAndSeparators ==
    (stmt # NoStatement /\ frag.ctor \in {"join", "list"}) =>
        LET k == Len(frag.templateValues)
        IN  /\ k >= 1
            /\ stmt.query = IF frag.ctor = "list"
                            THEN <<"(">> \o JoinedPlaceholders(k) \o <<")">>
                            ELSE JoinedPlaceholders(k)
            /\ CountOf("?", stmt.query) = k
            /\ CountOf(",", stmt.query) = k - 1
            /\ CountOf("(", stmt.query)
                   = (IF frag.ctor = "list" THEN 1 ELSE 0)
            /\ stmt.values.defined
            /\ stmt.values.list = frag.templateValues

\* C17's case: sql.list of three scalars, not all the same, was built.
C17_Witness ==
    /\ stmt # NoStatement
    /\ frag.ctor = "list"
    /\ Len(frag.templateValues) = 3
    /\ frag.templateValues[1] # frag.templateValues[3]
    /\ Len(ParamsOf(stmt)) = 3

IsEmptyHelper(value) ==
    ~IsScalar(value) /\ value.ctor \in {"joinEmpty", "listEmpty"}

\* The sentinel of the helper that returned the fragment.
Sentinel(fragment) ==
    IF fragment.ctor = "listEmpty"
    THEN <<"(", "N", "U", "L", "L", ")">>
    ELSE <<"N", "U", "L", "L">>

\* The text of a parent whose slots hold scalars and fragments of an empty
\* input: its literals, "?" for a scalar, the sentinel for such a fragment.
RECURSIVE SentinelTextUpTo(_, _)
SentinelTextUpTo(parent, n) ==
    IF n = 0
    THEN <<>>
    ELSE SentinelTextUpTo(parent, n - 1)
         \o (IF n > 1
             THEN IF IsScalar(parent.templateValues[n - 1])
                  THEN <<"?">>
                  ELSE Sentinel(parent.templateValues[n - 1])
             ELSE <<>>)
         \o parent.templateStrings[n]

\* C18: the fragment that sql.join or sql.list returns for a zero-length
\* input builds to the text NULL, (NULL) for sql.list, with no placeholder
\* and no parameter; nested in slots of a parent fragment beside scalars, it
\* puts that same text where each such slot stands and adds no placeholder
\* and no parameter: the parameters are the parent's scalars.
C18_EmptyInputYieldsNullSentinel ==
    stmt # NoStatement =>
        /\ IsEmptyHelper(frag) =>
               /\ stmt.query = Sentinel(frag)
               /\ CountOf("?", stmt.query) = 0
               /\ ParamsOf(stmt) = <<>>
        /\ (/\ frag.ctor = "sql"
            /\ \E j \in 1..Len(frag.templateValues) :
                   IsEmptyHelper(frag.templateValues[j])
            /\ \A j \in 1..Len(frag.templateValues) :
                   \/ IsScalar(frag.templateValues[j])
                   \/ IsEmptyHelper(frag.templateValues[j])) =>
               /\ stmt.query
                      = SentinelTextUpTo(frag, Len(frag.templateStrings))
               /\ ParamsOf(stmt) = SelectSeq(frag.templateValues, IsScalar)

\* C18's case: the fragment of sql.join([]) nested after a literal and
\* before a scalar slot of the parent, built.
C18_Witness ==
    /\ stmt # NoStatement
    /\ Len(frag.templateValues) = 2
    /\ IsEmptyHelper(frag.templateValues[1])
    /\ frag.templateValues[1].ctor = "joinEmpty"
    /\ frag.templateStrings[1] # <<>>
    /\ IsScalar(frag.templateValues[2])
    /\ Len(ParamsOf(stmt)) = 1

\* One empty literal segment and no slot.
CanonicalEmpty(fragment) ==
    /\ Len(fragment.templateStrings) = 1
    /\ fragment.templateStrings[1] = <<>>
    /\ fragment.templateValues = <<>>

\* C19: isEmpty() of a fragment, and of every fragment nested in it, is
\* true exactly when the fragment has one literal segment, the empty
\* string, and no slot; it is false for every fragment of sql.join and
\* sql.list, that of an empty input included, and for a fragment whose only
\* content is a nested empty fragment, although that one builds to the
\* empty text.
C19_IsEmptyIffCanonicalEmptyShape ==
    /\ \A node \in Nodes(frag) : IsEmpty(node) <=> CanonicalEmpty(node)
    /\ frag.ctor \in {"join", "joinEmpty", "list", "listEmpty"} =>
           ~IsEmpty(frag)
    /\ (/\ frag.templateStrings = <<<<>>, <<>>>>
        /\ frag.templateValues = <<EmptyFragment>>) =>
           /\ ~IsEmpty(frag)
           /\ IsEmpty(frag.templateValues[1])
           /\ stmt # NoStatement => stmt.query = <<>>

\* C19's case: a fragment whose only content is a nested empty fragment,
\* built to the empty text.
C19_Witness ==
    /\ frag.templateStrings = <<<<>>, <<>>>>
    /\ frag.templateValues = <<EmptyFragment>>
    /\ stmt # NoStatement
    /\ stmt.query = <<>>

\* The coercion that the flattener is claimed to apply to a scalar.
Coerced(value) ==
    CASE value.kind = "boolean" ->
             [kind |-> "string",
              text |-> IF value.text = <<"t">>
                       THEN <<"t", "r", "u", "e">>
                       ELSE <<"f", "a", "l", "s", "e">>]
      [] value.kind = "undefined" -> [kind |-> "null", text |-> <<>>]
      [] OTHER -> value

\* C20 as claimed: the parameters that build() returns are strings,
\* numbers, null and byte buffers only, each the coerced value of its scalar
\* slot: "true" and "false" for the booleans, null for undefined, the value
\* itself otherwise.
C20_ParametersAreCoerced ==
    stmt # NoStatement =>
        \A i \in 1..Len(ParamsOf(stmt)) :
            /\ ParamsOf(stmt)[i].kind \in {"string", "number", "null", "bytes"}
            /\ ParamsOf(stmt)[i] = Coerced(ScalarSlots(frag)[i].value)

\* C23 as claimed: build() returns values undefined exactly when the tree
\* has no scalar slot, and never an empty list.
C23_ValuesUndefinedIffNoScalarSlot ==
    stmt # NoStatement =>
        /\ stmt.values.defined <=> Len(ScalarSlots(frag)) > 0
        /\ stmt.values.defined => stmt.values.list # <<>>

C25_FragmentsAreImmutable ==
    /\ \A node \in Nodes(frag) :
           Len(node.templateStrings) = Len(node.templateValues) + 1
    /\ stmt # NoStatement => stmt = Build(frag)

\* C28: map(mapper) does not change the statement. A query with f.map(m)
\* executes the text and the parameters of f.build(), and f.map(m).build()
\* and f.map(m).isEmpty() are those of f; f carries no mapper; a query with
\* a fragment that nests f.map(m) executes what it executes with f nested,
\* no mapper is called, and the caller gets the raw rows.
C28_MapKeepsTheStatement ==
    calls # <<>> =>
        \A f \in QueryFragments, m \in Mappers :
            LET exec == SelectSeq(calls, IsExec)[1]
            IN  /\ "mapper" \notin DOMAIN f
                /\ queryStatement = Map(f, m) =>
                       /\ Build(queryStatement) = Build(f)
                       /\ IsEmpty(queryStatement) = IsEmpty(f)
                       /\ exec.query = Build(f).query
                       /\ exec.values = ParamsOf(Build(f))
                /\ queryStatement = Nest(Map(f, m)) =>
                       /\ Build(queryStatement) = Build(Nest(f))
                       /\ exec.query = Build(Nest(f)).query
                       /\ exec.values = ParamsOf(Build(Nest(f)))
                       /\ \A n \in 1..Len(calls) : ~IsMapperCall(calls[n])
                       /\ Shaped("queryMany") =>
                              answer = QueryMany(RawRows)

\* C28's case: queryMany with a fragment that nests a fragment mapped with
\* the mapper that throws on the row of id 2 has returned that row.
C28_Witness ==
    /\ \E f \in QueryFragments : queryStatement = Nest(Map(f, "strict"))
    /\ Shaped("queryMany")
    /\ RawRows = <<[id |-> 2]>>
    /\ answer = QueryMany(<<[id |-> 2]>>)

IsBeforeQuery(call) == call.op = "beforeQuery"

IsAfterQuery(call) == call.op = "afterQuery"

\* C29: in every call of run, queryNone, queryNoneOrOne, queryOne,
\* queryMany, pragma or pragmaFull on a wrapper with callbacks, beforeQuery
\* is invoked once, first, with the text the engine is then given; when the
\* engine yields, afterQuery is invoked once, right after, with that text and
\* the engine's raw result, before any mapper call and before the method
\* answers; when the engine rejects the statement, afterQuery is not invoked
\* and the method throws the engine's error itself.
C29_CallbacksAroundExecution ==
    calls # <<>> =>
        /\ Len(SelectSeq(calls, IsBeforeQuery)) = 1
        /\ Len(SelectSeq(calls, IsExec)) = 1
        /\ IsBeforeQuery(calls[1])
        /\ IsExec(calls[2])
        /\ calls[1].query = Prepared(queryStatement).query
        /\ calls[2].query = calls[1].query
        /\ method \in {"pragma", "pragmaFull"} =>
               \E pragma \in Pragmas : calls[1].query = PragmaQuery(pragma)
        /\ calls[2].error = NoError =>
               /\ Len(SelectSeq(calls, IsAfterQuery)) = 1
               /\ IsAfterQuery(calls[3])
               /\ calls[3].query = calls[2].query
               /\ calls[3].data = calls[2].data
        /\ calls[2].error # NoError =>
               /\ Len(calls) = 2
               /\ qpc = "idle"
               /\ answer = Throws(calls[2].error)

\* C29's case: queryOne with a mapped fragment threw its cardinality error
\* for 2 rows, afterQuery having been called with the 2 raw rows.
C29_Witness ==
    /\ method = "queryOne"
    /\ qpc = "idle"
    /\ "mapper" \in DOMAIN queryStatement
    /\ answer = Throws(ErrorOf("Expected one row, got 2"))
    /\ Len(calls) >= 3
    /\ IsAfterQuery(calls[3])
    /\ calls[3].data = <<[id |-> 1], [id |-> 1]>>

====
